---------------------------- MODULE Spec2Model ----------------------------
(***************************************************************************)
(* Model of download_videos.py: a single-site crawler that collects video  *)
(* URLs from the pages it visits and then downloads them one at a time.    *)
(*                                                                         *)
(* A URL or an href is a record                                            *)
(*    [scheme, netloc, abs, segs, frag]                                    *)
(* where segs are the path segments after the leading "/" when abs is      *)
(* TRUE ("/" is <<"">>, "/d/a" is <<"d","a">>) and the segments of a       *)
(* relative path otherwise ("b" is <<"b">>); the empty path is <<>>.       *)
(***************************************************************************)
EXTENDS Naturals, Integers, Sequences, FiniteSets, TLC

\* ------------------------------------------------------------------ bounds
\* largest page ceiling of the runs on a site of arbitrary pages
MaxPagesBound == 2
\* largest page ceiling of the runs on a site of plain pages
MaxPlainPages == 4
\* largest number of anchors on one page
MaxAnchors == 2

\* ------------------------------------------------------------- URL algebra
RootNetloc == "enterawebsite.com"

Ref(s, n, a, p, f) == [scheme |-> s, netloc |-> n, abs |-> a, segs |-> p, frag |-> f]

\* BASE_URL = "https://enterawebsite.com/"
BASE_URL == Ref("https", RootNetloc, TRUE, <<"">>, "")

\* urllib.parse.uses_relative, restricted to the schemes of the model
uses_relative == {"", "http", "https"}

\* the href attribute values anchors of the modelled pages carry
Hrefs ==
  { Ref("", "", FALSE, <<"a">>, ""),                 \* a
    Ref("", "", TRUE, <<"a">>, "s"),                 \* /a#s
    Ref("", "", FALSE, <<>>, "top"),                 \* #top
    Ref("", "", TRUE, <<"">>, ""),                   \* /
    Ref("http", RootNetloc, TRUE, <<"b">>, ""),      \* http://enterawebsite.com/b
    Ref("", "other.com", TRUE, <<"a">>, ""),         \* //other.com/a
    Ref("https", "", FALSE, <<"b">>, ""),            \* https:b
    Ref("", "", TRUE, <<"video", "v.mp4">>, "") }    \* /video/v.mp4

\* the src attribute values <source> elements inside <video> carry
Srcs ==
  { Ref("", "", TRUE, <<"video", "w.webm">>, ""),    \* /video/w.webm
    Ref("", "", TRUE, <<"media", "v.mp4">>, "") }    \* /media/v.mp4

\* a page body: its anchors' hrefs and its <video><source> srcs
Htmls ==
  { [anchors |-> A, sources |-> S] :
      A \in {X \in SUBSET Hrefs : Cardinality(X) <= MaxAnchors},
      S \in SUBSET Srcs }

\* pages of plain links: the hrefs a, http://enterawebsite.com/b and /
PlainHrefs ==
  { Ref("", "", FALSE, <<"a">>, ""),
    Ref("http", RootNetloc, TRUE, <<"b">>, ""),
    Ref("", "", TRUE, <<"">>, "") }

\* and of one video: the src /video/w.webm
PlainSrcs == { Ref("", "", TRUE, <<"video", "w.webm">>, "") }

PlainHtmls ==
  { [anchors |-> A, sources |-> S] :
      A \in {X \in SUBSET PlainHrefs : Cardinality(X) <= MaxAnchors},
      S \in SUBSET PlainSrcs }

\* pages whose anchors differ by their fragments: the hrefs a, /a#s, b#s,
\* #top and /
FragmentHrefs ==
  { Ref("", "", FALSE, <<"a">>, ""),
    Ref("", "", TRUE, <<"a">>, "s"),
    Ref("", "", FALSE, <<"b">>, "s"),
    Ref("", "", FALSE, <<>>, "top"),
    Ref("", "", TRUE, <<"">>, "") }

FragmentHtmls ==
  { [anchors |-> A, sources |-> {}] :
      A \in {X \in SUBSET FragmentHrefs : Cardinality(X) <= MaxAnchors} }

\* `not href`: the empty string
IsEmptyRef(r) ==
  r.scheme = "" /\ r.netloc = "" /\ ~r.abs /\ r.segs = <<>> /\ r.frag = ""

SplitFragmentKeep(r) == r

\* href.split("#", 1)[0]
SplitFragment(r) == [r EXCEPT !.frag = ""]

\* urlparse(u).netloc
Netloc(u) == u.netloc

\* urllib.parse.urljoin(base, url) for a base that is not empty
urljoin(base, url) ==
  IF IsEmptyRef(url) THEN base
  ELSE LET scheme == IF url.scheme = "" THEN base.scheme ELSE url.scheme IN
    IF scheme # base.scheme \/ scheme \notin uses_relative THEN url
    ELSE IF url.netloc # "" THEN [url EXCEPT !.scheme = scheme]
    ELSE IF url.segs = <<>>
      THEN Ref(scheme, base.netloc, base.abs, base.segs, url.frag)
      ELSE LET base_parts == IF base.segs = <<>> THEN <<>>
                             ELSE SubSeq(base.segs, 1, Len(base.segs) - 1)
               segments == IF url.abs THEN url.segs ELSE base_parts \o url.segs
           IN Ref(scheme, base.netloc, TRUE, segments, url.frag)

is_internal_link(href) ==
  /\ ~IsEmptyRef(href)
  /\ Netloc(urljoin(BASE_URL, href)) = Netloc(BASE_URL)

gather_page_urls(html, base) ==
  { urljoin(base, SplitFragment(a)) :
      a \in {x \in html.anchors : is_internal_link(SplitFragment(x))} }

\* file names with a video extension (.mp4, .webm)
VideoNames == {"v.mp4", "w.webm"}

\* the capture of  (/video/[^"']+\.(?:mp4|webm))  at the start of an
\* attribute value, or nothing
RegexVideo(attr) ==
  IF /\ attr.scheme = "" /\ attr.netloc = "" /\ attr.abs
     /\ Len(attr.segs) >= 2
     /\ attr.segs[1] = "video"
     /\ attr.segs[Len(attr.segs)] \in VideoNames
  THEN {[attr EXCEPT !.frag = ""]}
  ELSE {}

find_video_urls(html, base) ==
  LET structural == {urljoin(base, s) : s \in {x \in html.sources : ~IsEmptyRef(x)}}
      src_pattern == UNION {RegexVideo(s) : s \in html.sources}
      href_pattern == UNION {RegexVideo(a) : a \in html.anchors}
  IN structural
       \cup {urljoin(base, m) : m \in src_pattern}
       \cup {urljoin(base, m) : m \in href_pattern}


\* ------------------------------------------------------------------- state
VARIABLES
  MAX_PAGES,      \* the configured page ceiling
  world,          \* which family of page bodies the site answers fetches with
  visited_pages,  \* main: visited_pages
  to_crawl,       \* main: to_crawl
  found_videos,   \* main: found_videos
  pc,             \* where main is
  url,            \* main: url, the page being processed
  pages,          \* main: pages, the links gathered from the page being processed
  fetch_count,    \* history: page URL -> number of requests.get calls on it
  site,           \* history: page URL -> whether its fetch succeeded, its links
  queue,          \* the rest of sorted(found_videos) the download loop walks
  dir_exists,     \* whether VIDEO_DIR exists
  files,          \* file name -> content of the file in VIDEO_DIR, or Absent
  events,         \* history: what download_file did, call by call, this run
  run,            \* history: which run of the download loop this is
  at_start        \* history: VIDEO_DIR when this run of the download loop began

vars == <<MAX_PAGES, world, visited_pages, to_crawl, found_videos, pc, url, pages,
          fetch_count, site, queue, dir_exists, files, events, run, at_start>>

config_vars == <<MAX_PAGES, world>>
disk_vars == <<queue, dir_exists, files, events, run, at_start>>

NoUrl == Ref("", "", FALSE, <<>>, "")
\* the content of a file of VIDEO_DIR: none, one that was there before the
\* program started, or the body of src, complete or cut short
Absent == [kind |-> "absent", src |-> NoUrl, complete |-> FALSE]
OldFile == [kind |-> "old", src |-> NoUrl, complete |-> TRUE]
Written(u, whole) == [kind |-> "video", src |-> u, complete |-> whole]

FileNames == VideoNames

NoFiles == [n \in FileNames |-> Absent]

\* what VIDEO_DIR is when the program starts: missing, or holding v.mp4
InitialDisks ==
  { [dir |-> FALSE, files |-> NoFiles],
    [dir |-> TRUE, files |-> [n \in FileNames |-> IF n = "v.mp4" THEN OldFile ELSE Absent]] }

NoStart == [dir |-> FALSE, files |-> NoFiles, prior |-> "none"]

\* main, lines 96-98, on a site that can serve any page of Htmls
Init ==
  /\ MAX_PAGES \in 0..MaxPagesBound
  /\ world = "any"
  /\ visited_pages = {}
  /\ to_crawl = {BASE_URL}
  /\ found_videos = {}
  /\ pc = "loop"
  /\ url = NoUrl
  /\ pages = {}
  /\ fetch_count = <<>>
  /\ site = <<>>
  /\ queue = <<>>
  /\ \E d \in InitialDisks : dir_exists = d.dir /\ files = d.files
  /\ events = <<>>
  /\ run = 1
  /\ at_start = NoStart

\* main, lines 96-98, on a site of plain pages
InitPlain ==
  /\ MAX_PAGES \in 0..MaxPlainPages
  /\ world = "plain"
  /\ visited_pages = {}
  /\ to_crawl = {BASE_URL}
  /\ found_videos = {}
  /\ pc = "loop"
  /\ url = NoUrl
  /\ pages = {}
  /\ fetch_count = <<>>
  /\ site = <<>>
  /\ queue = <<>>
  /\ dir_exists = FALSE /\ files = NoFiles
  /\ events = <<>>
  /\ run = 1
  /\ at_start = NoStart

\* main, lines 96-98, on a site of pages whose anchors differ by fragments
InitFragments ==
  /\ MAX_PAGES \in 0..MaxPlainPages
  /\ world = "fragments"
  /\ visited_pages = {}
  /\ to_crawl = {BASE_URL}
  /\ found_videos = {}
  /\ pc = "loop"
  /\ url = NoUrl
  /\ pages = {}
  /\ fetch_count = <<>>
  /\ site = <<>>
  /\ queue = <<>>
  /\ dir_exists = FALSE /\ files = NoFiles
  /\ events = <<>>
  /\ run = 1
  /\ at_start = NoStart

\* f with x mapped to v, whether or not x is in its domain
Put(f, x, v) == [y \in DOMAIN f \cup {x} |-> IF y = x THEN v ELSE f[y]]

Count(f, x) == IF x \in DOMAIN f THEN f[x] ELSE 0

\* a response without a body
NoHtml == [anchors |-> {}, sources |-> {}]

\* the history of a fetch: its outcome and, depending on the site, the links
\* and the videos extracted from the page and the anchors of the page
Record(u, ok, html) ==
  Put(site, u,
      [ok |-> ok,
       links |-> IF world \in {"plain", "fragments"} THEN gather_page_urls(html, u) ELSE {},
       vids |-> IF world = "plain" THEN find_video_urls(html, u) ELSE {},
       anchors |-> IF world = "fragments" THEN html.anchors ELSE {}])

\* ------------------------------------------------------------ the crawl loop
LoopConditionNoCeiling == to_crawl # {}

LoopConditionOffByOne == to_crawl # {} /\ Cardinality(visited_pages) <= MAX_PAGES

\* line 103
LoopCondition == to_crawl # {} /\ Cardinality(visited_pages) < MAX_PAGES

\* line 105
AlreadyVisited(u) == u \in visited_pages

\* lines 103-106: the loop test, to_crawl.pop() and the already-visited skip
Select ==
  /\ pc = "loop"
  /\ LoopCondition
  /\ \E u \in to_crawl :
       /\ to_crawl' = to_crawl \ {u}
       /\ IF AlreadyVisited(u)
            THEN pc' = "loop" /\ url' = NoUrl
            ELSE pc' = "fetch" /\ url' = u
  /\ UNCHANGED <<visited_pages, found_videos, pages, fetch_count, site>>
  /\ UNCHANGED config_vars
  /\ UNCHANGED disk_vars

\* requests cannot send a request to a URL without a host: requests.get
\* raises InvalidURL, which line 111 catches like any other failure
CanRespond(u) == u.netloc # ""

FetchErrorVisitedReset(u) == {u}

FetchErrorVisitedForget(u) == visited_pages

\* the except branch, lines 111-114
FetchErrorVisited(u) == visited_pages \cup {u}

\* lines 108-114: requests.get or raise_for_status raises.  url is dead after
\* the continue: line 104 rebinds it before it is read again.
FetchFail ==
  /\ pc = "fetch"
  /\ fetch_count' = Put(fetch_count, url, Count(fetch_count, url) + 1)
  /\ site' = Record(url, FALSE, NoHtml)
  /\ visited_pages' = FetchErrorVisited(url)
  /\ pc' = "loop"
  /\ url' = NoUrl
  /\ UNCHANGED <<to_crawl, found_videos, pages>>
  /\ UNCHANGED config_vars
  /\ UNCHANGED disk_vars

\* the bodies a successful fetch can return
Bodies ==
  CASE world = "any" -> Htmls
    [] world = "plain" -> PlainHtmls
    [] world = "fragments" -> FragmentHtmls

UpdateVideosAssign(vids) == vids

\* line 123
UpdateVideos(vids) == found_videos \cup vids

\* lines 108-126: the fetch succeeds with body html; the page is recorded as
\* visited, its videos are added and its page links are gathered
FetchOk ==
  /\ pc = "fetch"
  /\ CanRespond(url)
  /\ \E html \in Bodies :
       /\ found_videos' = UpdateVideos(find_video_urls(html, url))
       /\ pages' = gather_page_urls(html, url)
       /\ site' = Record(url, TRUE, html)
  /\ fetch_count' = Put(fetch_count, url, Count(fetch_count, url) + 1)
  /\ visited_pages' = visited_pages \cup {url}
  /\ pc' = "merge"
  /\ UNCHANGED <<to_crawl, url>>
  /\ UNCHANGED config_vars
  /\ UNCHANGED disk_vars

NewPagesAll(found) == found

\* line 127
NewPages(found) == found \ visited_pages

UpdateFrontierAssign(new_pages) == new_pages

\* line 128
UpdateFrontier(new_pages) == to_crawl \cup new_pages

\* lines 127-128.  url and pages are dead at the end of the iteration.
MergePages ==
  /\ pc = "merge"
  /\ to_crawl' = UpdateFrontier(NewPages(pages))
  /\ pc' = "loop"
  /\ url' = NoUrl
  /\ pages' = {}
  /\ UNCHANGED <<visited_pages, found_videos, fetch_count, site>>
  /\ UNCHANGED config_vars
  /\ UNCHANGED disk_vars

CrawlNext == Select \/ FetchFail \/ FetchOk \/ MergePages



\* ------------------------------------------------------- the download stage
\* the order of Python's string comparison on the URLs of the model, by
\* scheme, host and path segments ("http:" < "https:", "v.mp4" < "video")
SchemeRank(x) == IF x = "http" THEN 1 ELSE IF x = "https" THEN 2 ELSE 0
NetlocRank(x) == IF x = RootNetloc THEN 1 ELSE IF x = "other.com" THEN 2 ELSE 3
SegRank(x) ==
  CASE x = "" -> 1 [] x = "a" -> 2 [] x = "b" -> 3 [] x = "media" -> 4
    [] x = "v.mp4" -> 5 [] x = "video" -> 6 [] x = "w.webm" -> 7 [] OTHER -> 8

UrlKey(u) ==
  <<SchemeRank(u.scheme), NetlocRank(u.netloc)>> \o [i \in 1..Len(u.segs) |-> SegRank(u.segs[i])]

RECURSIVE LexLess(_, _)
LexLess(a, b) ==
  IF a = <<>> THEN b # <<>>
  ELSE IF b = <<>> THEN FALSE
  ELSE IF Head(a) # Head(b) THEN Head(a) < Head(b)
  ELSE LexLess(Tail(a), Tail(b))

UrlLess(u, v) == LexLess(UrlKey(u), UrlKey(v))

sortedDescending(S) ==
  [i \in 1..Cardinality(S) |->
     CHOOSE x \in S : Cardinality({y \in S : UrlLess(x, y)}) = i - 1]

\* sorted(found_videos), line 138: the element at position i is the one with
\* i - 1 smaller elements
sorted(S) ==
  [i \in 1..Cardinality(S) |->
     CHOOSE x \in S : Cardinality({y \in S : UrlLess(y, x)}) = i - 1]

\* os.path.basename(urlparse(url).path), line 77
Basename(u) == IF u.segs = <<>> THEN "" ELSE u.segs[Len(u.segs)]

\* os.path.exists(out_path), line 79, once line 76 has made the directory:
\* the empty file name names the directory itself
Exists(name) == name = "" \/ (name \in DOMAIN files /\ files[name] # Absent)

NoVideosNever == FALSE

\* line 134: not found_videos
NoVideos == found_videos = {}

\* lines 103 and 131-138: the loop condition fails; main reports, returns on
\* an empty found_videos and starts the download loop otherwise
Report ==
  /\ pc = "loop"
  /\ ~LoopCondition
  /\ pc' = IF NoVideos THEN "done" ELSE "download"
  /\ queue' = IF NoVideos THEN queue ELSE sorted(found_videos)
  /\ at_start' = IF NoVideos THEN at_start
                 ELSE [dir |-> dir_exists, files |-> files, prior |-> "none"]
  /\ UNCHANGED <<visited_pages, to_crawl, found_videos, url, pages, fetch_count, site>>
  /\ UNCHANGED <<dir_exists, files, events, run>>
  /\ UNCHANGED config_vars

Event(op, u) == [op |-> op, url |-> u]

SkipTestNever(name) == FALSE

\* line 79
SkipTest(name) == Exists(name)

\* lines 74-81: the file is there already
DownloadSkip ==
  /\ pc = "download"
  /\ queue # <<>>
  /\ SkipTest(Basename(Head(queue)))
  /\ dir_exists' = TRUE
  /\ events' = Append(events, Event("skip", Head(queue)))
  /\ queue' = Tail(queue)
  /\ UNCHANGED <<pc, files, run, at_start>>
  /\ UNCHANGED <<visited_pages, to_crawl, found_videos, url, pages, fetch_count, site>>
  /\ UNCHANGED config_vars

\* lines 74-93: the body is streamed to the end
DownloadOk ==
  /\ pc = "download"
  /\ queue # <<>>
  /\ ~SkipTest(Basename(Head(queue)))
  /\ dir_exists' = TRUE
  /\ files' = [files EXCEPT ![Basename(Head(queue))] = Written(Head(queue), TRUE)]
  /\ events' = Append(events, Event("saved", Head(queue)))
  /\ queue' = Tail(queue)
  /\ UNCHANGED <<pc, run, at_start>>
  /\ UNCHANGED <<visited_pages, to_crawl, found_videos, url, pages, fetch_count, site>>
  /\ UNCHANGED config_vars

\* where main is after an exception leaves download_file: lines 138-139 have
\* no handler, so the exception leaves main too
AfterDownloadError == "raised"

\* lines 83-84: requests.get or raise_for_status raises; no file was opened
DownloadRefused ==
  /\ pc = "download"
  /\ queue # <<>>
  /\ ~SkipTest(Basename(Head(queue)))
  /\ dir_exists' = TRUE
  /\ events' = Append(events, Event("refused", Head(queue)))
  /\ pc' = AfterDownloadError
  /\ queue' = IF AfterDownloadError = "download" THEN Tail(queue) ELSE queue
  /\ UNCHANGED <<files, run, at_start>>
  /\ UNCHANGED <<visited_pages, to_crawl, found_videos, url, pages, fetch_count, site>>
  /\ UNCHANGED config_vars

\* lines 87-91: the file is open when iter_content raises; what was written
\* stays on disk
DownloadBroken ==
  /\ pc = "download"
  /\ queue # <<>>
  /\ ~SkipTest(Basename(Head(queue)))
  /\ dir_exists' = TRUE
  /\ files' = [files EXCEPT ![Basename(Head(queue))] = Written(Head(queue), FALSE)]
  /\ events' = Append(events, Event("broken", Head(queue)))
  /\ pc' = AfterDownloadError
  /\ queue' = IF AfterDownloadError = "download" THEN Tail(queue) ELSE queue
  /\ UNCHANGED <<run, at_start>>
  /\ UNCHANGED <<visited_pages, to_crawl, found_videos, url, pages, fetch_count, site>>
  /\ UNCHANGED config_vars

\* line 83 or line 88: requests.get is called without a timeout, so when the
\* server stops answering, before the headers or in the middle of the body,
\* the call never returns; a file opened on line 87 stays as far as written
DownloadHang ==
  /\ pc = "download"
  /\ queue # <<>>
  /\ ~SkipTest(Basename(Head(queue)))
  /\ dir_exists' = TRUE
  /\ \E opened \in BOOLEAN :
       files' = IF opened
                THEN [files EXCEPT ![Basename(Head(queue))] = Written(Head(queue), FALSE)]
                ELSE files
  /\ events' = Append(events, Event("hung", Head(queue)))
  /\ pc' = "hung"
  /\ UNCHANGED <<queue, run, at_start>>
  /\ UNCHANGED <<visited_pages, to_crawl, found_videos, url, pages, fetch_count, site>>
  /\ UNCHANGED config_vars

\* lines 141-142
Finish ==
  /\ pc = "download"
  /\ queue = <<>>
  /\ pc' = "done"
  /\ UNCHANGED <<queue, dir_exists, files, events, run, at_start>>
  /\ UNCHANGED <<visited_pages, to_crawl, found_videos, url, pages, fetch_count, site>>
  /\ UNCHANGED config_vars

\* line 139: one call of download_file
DownloadStep ==
  DownloadSkip \/ DownloadOk \/ DownloadRefused \/ DownloadBroken \/ DownloadHang

DownloadNext == Report \/ DownloadStep \/ Finish

Next == CrawlNext \/ DownloadNext

\* the crawl loop alone.  It is sequential code: each step that can be taken
\* is taken, and a fetch that does not succeed fails, by the timeout of
\* line 109 at the latest
SpecCrawl ==
  /\ Init /\ [][CrawlNext]_vars
  /\ WF_vars(Select) /\ WF_vars(FetchFail) /\ WF_vars(MergePages)

\* the crawl loop on a site of plain pages
SpecPlain == InitPlain /\ [][CrawlNext]_vars

\* the crawl loop on a site of pages whose anchors differ by fragments
SpecFragments == InitFragments /\ [][CrawlNext]_vars

\* the whole of main
Spec == Init /\ [][Next]_vars

\* main started where VIDEO_DIR does not exist
InitRun == Init /\ ~dir_exists

\* the whole of main as the sequential program it is: a step that can be
\* taken is taken, a page fetch that does not succeed fails, by the timeout
\* of line 109 at the latest, and a call of download_file has one of its
\* outcomes
SpecRun ==
  /\ InitRun /\ [][Next]_vars
  /\ WF_vars(Select) /\ WF_vars(FetchFail) /\ WF_vars(MergePages)
  /\ WF_vars(Report) /\ WF_vars(DownloadStep) /\ WF_vars(Finish)

\* lines 138-139 once more: the download loop runs a second time on the same
\* found_videos and the same VIDEO_DIR
Rerun ==
  /\ pc \in {"done", "raised"}
  /\ run = 1
  /\ found_videos # {}
  /\ run' = 2
  /\ pc' = "download"
  /\ queue' = sorted(found_videos)
  /\ events' = <<>>
  /\ at_start' = [dir |-> dir_exists, files |-> files, prior |-> pc]
  /\ UNCHANGED <<dir_exists, files>>
  /\ UNCHANGED <<visited_pages, to_crawl, found_videos, url, pages, fetch_count, site>>
  /\ UNCHANGED config_vars

NextTwice == Next \/ Rerun

SpecTwice == Init /\ [][NextTwice]_vars


\* ------------------------------------------------------------------ claims
\* the loop of line 103 is over: its condition has failed
CrawlEnded == pc \notin {"fetch", "merge"} /\ ~(pc = "loop" /\ LoopCondition)

RECURSIVE SumCounts(_, _)
SumCounts(f, D) ==
  IF D = {} THEN 0
  ELSE LET x == CHOOSE y \in D : TRUE IN f[x] + SumCounts(f, D \ {x})

\* the number of page fetches attempted so far
FetchAttempts == SumCounts(fetch_count, DOMAIN fetch_count)

Failed == {u \in DOMAIN site : ~site[u].ok}

EventUrls == {events[i].url : i \in 1..Len(events)}
EventOps == {events[i].op : i \in 1..Len(events)}

\* C1: the Visited Set never holds more than MAX_PAGES URLs, and no page
\* fetch is about to be attempted once it holds MAX_PAGES
C1_CeilingEnforced ==
  /\ Cardinality(visited_pages) <= MAX_PAGES
  /\ pc = "fetch" => Cardinality(visited_pages) < MAX_PAGES

\* the ceiling stopped a crawl that still had pages to visit, one of them failed
C1_Witness ==
  /\ CrawlEnded
  /\ MAX_PAGES >= 2
  /\ Cardinality(visited_pages) = MAX_PAGES
  /\ to_crawl # {}
  /\ Failed # {}

\* C2: the Visited Set only grows, and no URL is the target of more than one
\* page fetch, failed or not
C2_VisitedGrowsFetchOnce ==
  /\ [][visited_pages \subseteq visited_pages']_vars
  /\ [](\A u \in DOMAIN fetch_count : fetch_count[u] <= 1)

\* three pages were fetched, one of them failed, and a link led back to a
\* visited page
C2_Witness ==
  /\ pc = "merge"
  /\ Cardinality(DOMAIN fetch_count) >= 3
  /\ Failed # {}
  /\ pages \cap visited_pages # {}

\* C3: Frontier and Visited Set are disjoint in every state
C3_FrontierVisitedDisjoint == to_crawl \cap visited_pages = {}

\* the page just fetched links to itself, to an earlier page and to a new one
C3_Witness ==
  /\ pc = "merge"
  /\ url \in pages
  /\ (pages \cap visited_pages) \ {url} # {}
  /\ to_crawl # {}

\* C4: the crawl loop ends, after at most MAX_PAGES fetch attempts, and when
\* it has ended the Frontier is empty or the Visited Set holds MAX_PAGES URLs
C4_CrawlTerminates ==
  /\ <>CrawlEnded
  /\ [](FetchAttempts <= MAX_PAGES)
  /\ [](CrawlEnded => to_crawl = {} \/ Cardinality(visited_pages) = MAX_PAGES)

\* a crawl ended on the ceiling, after a failed fetch, with pages left over
C4_Witness ==
  /\ CrawlEnded
  /\ MAX_PAGES >= 2
  /\ FetchAttempts = MAX_PAGES
  /\ Failed # {}
  /\ to_crawl # {}

\* C5: a failed page fetch adds the URL to the Visited Set, leaves the
\* Frontier and the Video URL Set as they are, goes on with the loop, and the
\* URL, like every visited URL, is not fetched again
C5_FetchFailureNonFatal ==
  /\ [][pc = "fetch" /\ pc' # "merge"
         => /\ visited_pages' = visited_pages \cup {url}
            /\ to_crawl' = to_crawl
            /\ found_videos' = found_videos
            /\ pc' = "loop"]_vars
  /\ [](pc = "fetch" => url \notin visited_pages)
  /\ [](\A u \in Failed : u \in visited_pages /\ fetch_count[u] = 1)

\* a fetch failed while videos were found and pages were waiting, and the loop
\* went on to fetch another page
C5_Witness ==
  /\ pc = "fetch"
  /\ Failed # {}
  /\ found_videos # {}

\* C6: every URL of the Frontier and of the Visited Set has the network
\* location of the root URL
C6_SingleDomain ==
  \A u \in to_crawl \cup visited_pages : Netloc(u) = Netloc(BASE_URL)

\* C7: a failed download raises nothing, and when the run is done every URL
\* of the Video URL Set was attempted
C7_DownloadFailureIsolated ==
  /\ pc # "raised"
  /\ pc = "done" /\ found_videos # {} => EventUrls = found_videos

\* C8 as stated: the second run of the download loop transfers nothing and
\* leaves the directory as it found it
C8_SecondRunIdle ==
  run = 2 => /\ EventOps \subseteq {"skip"}
             /\ files = at_start.files
             /\ (pc = "done" => EventUrls = found_videos)

\* C8 as amended: after a first run in which no download failed, the second
\* run of the download loop transfers nothing and leaves the directory as it
\* found it
C8_SecondRunIdleAfterCleanRun ==
  run = 2 /\ at_start.prior = "done" => C8_SecondRunIdle

\* a second run after a clean first run skipped two URLs and finished
C8_Witness ==
  /\ run = 2
  /\ at_start.prior = "done"
  /\ pc = "done"
  /\ Len(events) >= 2

\* C9: no step changes or removes a file that exists, nor the directory
C9_NoOverwriteNoDelete ==
  [][/\ \A n \in FileNames : files[n] # Absent => files'[n] = files[n]
     /\ dir_exists => dir_exists']_vars

\* with v.mp4 already there, a URL named v.mp4 was skipped and another file
\* was downloaded
C9_Witness ==
  /\ files["v.mp4"] = OldFile
  /\ "skip" \in EventOps
  /\ "saved" \in EventOps

RECURSIVE Closure(_)
Closure(S) ==
  LET more == S \cup UNION {site[p].links : p \in {q \in S \cap DOMAIN site : site[q].ok}}
  IN IF more = S THEN S ELSE Closure(more)

\* the URLs that links on successfully fetched pages lead to from the root
Reachable == Closure({BASE_URL})

\* C10: a crawl that ends below the ceiling has visited exactly the URLs
\* reachable from the root through the links of successfully fetched pages
C10_VisitsAllReachable ==
  CrawlEnded /\ Cardinality(visited_pages) < MAX_PAGES => visited_pages = Reachable

\* a crawl ended below the ceiling after the root page had offered two pages
\* to choose from and one fetch had failed
C10_Witness ==
  /\ CrawlEnded
  /\ Cardinality(visited_pages) < MAX_PAGES
  /\ Cardinality(visited_pages) >= 3
  /\ Cardinality(site[BASE_URL].links \ {BASE_URL}) >= 2
  /\ Failed # {}

\* the pages whose fetch succeeded
Fetched == {u \in DOMAIN site : site[u].ok}

\* C11: the Video URL Set never shrinks, a failed fetch leaves it as it is,
\* and between iterations, so when the crawl has ended too, it is the union of
\* what find_video_urls returned for the pages whose fetch succeeded
C11_VideosAccumulate ==
  /\ [][found_videos \subseteq found_videos']_vars
  /\ [][pc = "fetch" /\ pc' = "loop" => found_videos' = found_videos]_vars
  /\ [](pc # "fetch" => found_videos = UNION {site[u].vids : u \in Fetched})
  /\ [](\A u \in Failed : site[u].vids = {})

\* the crawl ended with videos of two pages, a page without videos and a
\* failed fetch
C11_Witness ==
  /\ CrawlEnded
  /\ Cardinality(found_videos) >= 2
  /\ \E u \in Fetched : site[u].vids = {}
  /\ \E u \in Fetched : site[u].vids # {} /\ site[u].vids # found_videos
  /\ Failed # {}

\* the URLs of the Video URL Set that are stored under the file name of u and
\* come before u in processing order
Before(u) == {v \in found_videos : Basename(v) = Basename(u) /\ UrlLess(v, u)}

\* C12: when no file of its name existed beforehand, a URL that is not the
\* first of its file name is only ever skipped, and by then the file holds
\* the whole body of the first URL of that name
C12_CollisionKeepsFirst ==
  \A i \in 1..Len(events) :
    LET u == events[i].url IN
    at_start.files[Basename(u)] = Absent /\ Before(u) # {}
      => /\ events[i].op = "skip"
         /\ \E w \in Before(u) :
              Before(w) = {} /\ files[Basename(u)] = Written(w, TRUE)

\* a URL was saved and a later URL of the same file name was skipped
C12_Witness ==
  \E i, j \in 1..Len(events) :
    /\ i < j
    /\ events[i].op = "saved"
    /\ events[j].op = "skip"
    /\ Basename(events[i].url) = Basename(events[j].url)
    /\ at_start.files[Basename(events[i].url)] = Absent

\* C13: download_file is called on the URLs of the Video URL Set in ascending
\* order, none left out on the way, whatever the crawl did to find them
C13_AscendingOrder ==
  /\ EventUrls \subseteq found_videos
  /\ \A i, j \in 1..Len(events) :
       i < j => UrlLess(events[i].url, events[j].url)
  /\ \A i \in 1..Len(events) : \A v \in found_videos :
       UrlLess(v, events[i].url) => \E k \in 1..(i - 1) : events[k].url = v

\* three URLs were processed, first one of the http page, which the crawl
\* found after those of the root page
C13_Witness ==
  /\ pc = "done"
  /\ Len(events) = 3
  /\ events[1].url.scheme = "http"
  /\ events[2].url.scheme = "https"
  /\ BASE_URL \in Fetched

\* C14: when the fetch of the root URL has failed, the Visited Set is the
\* root alone, the Frontier and the Video URL Set are empty, no other page was
\* fetched, nothing was raised or downloaded, and main returns
C14_RootFetchFailure ==
  /\ [](BASE_URL \in Failed
          => /\ visited_pages = {BASE_URL}
             /\ to_crawl = {}
             /\ found_videos = {}
             /\ DOMAIN fetch_count = {BASE_URL}
             /\ fetch_count[BASE_URL] = 1
             /\ events = <<>>
             /\ pc \in {"loop", "done"})
  /\ (BASE_URL \in Failed) ~> (pc = "done")

\* main returned after the fetch of the root failed, under a ceiling that
\* left room for more pages
C14_Witness ==
  /\ pc = "done"
  /\ BASE_URL \in Failed
  /\ MAX_PAGES >= 2

\* C15: as long as the Video URL Set is empty no step enters the download
\* loop, calls download_file or changes the directory or its files
C15_EmptyResultNoDownload ==
  /\ [][found_videos' = {}
         => /\ pc' \notin {"download", "raised", "hung"}
            /\ UNCHANGED <<dir_exists, files, events, queue>>]_vars
  /\ [](found_videos = {} => events = <<>> /\ queue = <<>>)

\* main returned without videos after two pages, the directory still missing
C15_Witness ==
  /\ pc = "done"
  /\ found_videos = {}
  /\ Cardinality(Fetched) >= 2
  /\ ~dir_exists

\* C16: no URL of the Frontier, of the Visited Set or of the links just
\* gathered carries a fragment, a page whose anchors are all fragment-only
\* yields no link, and no URL is fetched twice
C16_FragmentsStripped ==
  /\ \A u \in to_crawl \cup visited_pages \cup pages : u.frag = ""
  /\ \A p \in Fetched :
       (\A x \in site[p].anchors : IsEmptyRef(SplitFragment(x))) => site[p].links = {}
  /\ \A u \in DOMAIN fetch_count : fetch_count[u] <= 1

\* the root page had the anchors a and /a#s, which gave the one link /a, and
\* the page /a, fetched once, had a fragment-only anchor and no link
C16_Witness ==
  LET a == urljoin(BASE_URL, Ref("", "", FALSE, <<"a">>, "")) IN
  /\ BASE_URL \in Fetched
  /\ site[BASE_URL].anchors =
       {Ref("", "", FALSE, <<"a">>, ""), Ref("", "", TRUE, <<"a">>, "s")}
  /\ site[BASE_URL].links = {a}
  /\ a \in Fetched
  /\ site[a].anchors = {Ref("", "", FALSE, <<>>, "top")}
  /\ fetch_count[a] = 1
  /\ CrawlEnded

\* C17: every URL of the Video URL Set, and so every URL download_file is
\* called on, has a path under /video/
C17_VideosUnderVideoPath ==
  \A v \in found_videos \cup EventUrls : Len(v.segs) >= 2 /\ v.segs[1] = "video"

\* C18: no request waits forever: every run ends, by returning or raising
C18_RunEnds == <>(pc \in {"done", "raised"})

\* C19: a file download_file wrote holds the whole body of its URL
C19_OnlyCompleteFiles ==
  \A n \in FileNames : files[n].kind = "video" => files[n].complete

\* C20: the URL popped from the Frontier is never in the Visited Set, so each
\* pop is followed by a fetch, each fetch adds one URL to the Visited Set, and
\* there are as many visited URLs as fetch attempts
C20_SkipBranchUnreachable ==
  /\ [][pc = "loop" /\ to_crawl' # to_crawl
         => pc' = "fetch" /\ url' \notin visited_pages]_vars
  /\ [][pc = "fetch"
         => /\ Cardinality(visited_pages') = Cardinality(visited_pages) + 1
            /\ FetchAttempts' = FetchAttempts + 1]_vars
  /\ [](FetchAttempts = Cardinality(visited_pages))

\* three iterations are over, a fetched page linked back to a visited page
\* and the Frontier still has a URL to pop
C20_Witness ==
  /\ pc = "loop"
  /\ LoopCondition
  /\ Cardinality(visited_pages) >= 3
  /\ \E p \in Fetched : site[p].links \cap visited_pages # {}

=============================================================================
